---- MODULE Spec2Model ----
(***************************************************************************)
(* Model of readthedocs/config/config.py: the error taxonomy, the two      *)
(* build-config schemas (BuildConfigV1, BuildConfigV2), ProjectConfig and  *)
(* the load orchestration.                                                 *)
(*                                                                         *)
(* Encoding of Python values.  A scalar is a string token holding the      *)
(* Python repr of the value: "None", "True", "2" (int), "2.7" (float),     *)
(* "'pip'" (str), "[2]" (a list used where a scalar is expected).  A raw   *)
(* value is a record [k, tok, items]: k = "absent" (key not in the         *)
(* mapping), "scalar" (tok is the token) or "list" (items is the sequence  *)
(* of element tokens).  A raw section is a record with k = "absent",       *)
(* "scalar" (tok: the section is None, a string, a number) or "dict".      *)
(* Python versions are numbers in tenths: 2 is 20, 2.7 is 27.              *)
(***************************************************************************)
EXTENDS Integers, Sequences, FiniteSets, TLC

VARIABLES pc, env_config, filename, configs, build_configs, validated,
          project_config, raised, trace

vars == <<pc, env_config, filename, configs, build_configs, validated,
          project_config, raised, trace>>

(***************************************************************************)
(* Bounds of the model.                                                    *)
(***************************************************************************)
MaxDocs == 2

(***************************************************************************)
(* Module constants, config.py lines 33-70.                                *)
(***************************************************************************)
ALL == "'all'"
CONFIG_FILENAMES == <<"readthedocs.yml", ".readthedocs.yml">>

CONFIG_NOT_SUPPORTED == "config-not-supported"
VERSION_INVALID == "version-invalid"
CONFIG_SYNTAX_INVALID == "config-syntax-invalid"
CONFIG_REQUIRED == "config-required"
NAME_REQUIRED == "name-required"
NAME_INVALID == "name-invalid"
PYTHON_INVALID == "python-invalid"
SUBMODULES_INVALID == "submodules-invalid"
INVALID_KEYS_COMBINATION == "invalid-keys-combination"

DOCKER_DEFAULT_IMAGE == "readthedocs/build"
DOCKER_DEFAULT_VERSION == "'2.0'"

\* The tags an image name can carry, as str tokens, and '{}:{}'.format.
ImageTags == {"'1.0'", "'2.0'", "'3.0'", "'stable'", "'latest'"}

FormatImage(tag) ==
    CASE tag = "'1.0'" -> "'readthedocs/build:1.0'"
      [] tag = "'2.0'" -> "'readthedocs/build:2.0'"
      [] tag = "'3.0'" -> "'readthedocs/build:3.0'"
      [] tag = "'stable'" -> "'readthedocs/build:stable'"
      [] tag = "'latest'" -> "'readthedocs/build:latest'"
      [] tag = "'custom'" -> "'readthedocs/build:custom'"
      [] OTHER -> "'readthedocs/build:?'"

DOCKER_IMAGE == FormatImage(DOCKER_DEFAULT_VERSION)

DockerImages == {FormatImage(t) : t \in ImageTags}

DOCKER_IMAGE_SETTINGS(image) ==
    CASE image = "'readthedocs/build:1.0'" -> <<20, 27, 30, 34>>
      [] image = "'readthedocs/build:2.0'" -> <<20, 27, 30, 35>>
      [] OTHER -> <<20, 27, 30, 33, 34, 35, 36>>

(***************************************************************************)
(* Raw values.                                                             *)
(***************************************************************************)
Absent == [k |-> "absent", tok |-> "", items |-> <<>>]
Sc(t) == [k |-> "scalar", tok |-> t, items |-> <<>>]
Ls(s) == [k |-> "list", tok |-> "", items |-> s]

\* dict.get(key, default)
Get(v, d) == IF v.k = "absent" THEN d ELSE v

IntTokens == {"0", "1", "2", "3", "4"}
FloatTokens == {"1.0", "2.0", "2.5", "2.7", "3.3", "3.4", "3.5", "3.6"}
BoolTokens == {"True", "False"}
StrTokens == {"''", "'1'", "'2'", "'3'", "'2.7'", "'3.5'", "'abc'", "' 2 '",
              "'pip'", "'setup.py'", "'conda'", "'all'", "'none'",
              "'a'", "'b'", "'docs'", "'tests'",
              "'html'", "'htmldir'", "'singlehtml'", "'latex'",
              "'htmlzip'", "'pdf'", "'epub'", "'odt'",
              "'1.0'", "'2.0'", "'3.0'", "'stable'", "'latest'", "'custom'",
              "'custom/image:1'", "'custom/image'",
              "'readthedocs/build:1.0'", "'readthedocs/build:2.0'",
              "'readthedocs/build:3.0'", "'readthedocs/build:stable'",
              "'readthedocs/build:latest'", "'readthedocs/build:custom'",
              "'proj'", "'my project'",
              "'docs/conf.py'", "'mkdocs.yml'", "'requirements.txt'",
              "'environment.yml'", "'setup.py'", "'missing.txt'", "'docs'"}

IsStr(t) == t \in StrTokens

\* Python truthiness of a scalar.
Truthy(t) == t \notin {"None", "False", "0", "''", "[]", "{}"}

\* int(x) of a number or bool token, in units; floats truncate.
IntOfNumber(t) ==
    CASE t = "0" -> 0 [] t = "1" -> 1 [] t = "2" -> 2 [] t = "3" -> 3
      [] t = "4" -> 4 [] t = "True" -> 1 [] t = "False" -> 0
      [] t = "1.0" -> 1 [] t = "2.0" -> 2 [] t = "2.5" -> 2 [] t = "2.7" -> 2
      [] t \in {"3.3", "3.4", "3.5", "3.6"} -> 3
      [] OTHER -> -1

\* int(s) of a str token: the integer, or -1 for ValueError.  int() strips
\* surrounding whitespace and rejects a decimal point.
IntOfStr(t) ==
    CASE t = "'1'" -> 1 [] t = "'2'" -> 2 [] t = "'3'" -> 3 [] t = "' 2 '" -> 2
      [] OTHER -> -1

\* A number token in tenths, -1 when the token is no number.
Tenths(t) ==
    CASE t = "0" -> 0 [] t = "1" -> 10 [] t = "2" -> 20 [] t = "3" -> 30
      [] t = "4" -> 40 [] t = "2.5" -> 25 [] t = "2.7" -> 27 [] t = "3.3" -> 33
      [] t = "3.4" -> 34 [] t = "3.5" -> 35 [] t = "3.6" -> 36
      [] t = "True" -> 10 [] t = "False" -> 0
      [] t = "1.0" -> 10 [] t = "2.0" -> 20
      [] OTHER -> -1

\* str(x) of a scalar, as a str token.
StrOf(t) ==
    CASE IsStr(t) -> t
      [] t = "1.0" -> "'1.0'" [] t = "2.0" -> "'2.0'"
      [] t = "1" -> "'1'" [] t = "2" -> "'2'" [] t = "3" -> "'3'"
      [] t = "2.7" -> "'2.7'" [] t = "3.5" -> "'3.5'"
      [] OTHER -> "'?'"

\* ':' in s
HasColon(t) ==
    t \in {"'custom/image:1'", "'readthedocs/build:1.0'",
           "'readthedocs/build:2.0'", "'readthedocs/build:3.0'",
           "'readthedocs/build:stable'", "'readthedocs/build:latest'",
           "'readthedocs/build:custom'", "'readthedocs/build:?'"}

\* re.match(r'^[-_.0-9a-zA-Z]+$', s) of a str token.
NameMatches(t) ==
    IsStr(t) /\ ~HasColon(t)
    /\ t \notin {"''", "' 2 '", "'my project'", "'custom/image'",
                 "'docs/conf.py'"}

\* float(s) of a str token in tenths, -1 for ValueError.
FloatOfStr(t) ==
    CASE t = "'1'" -> 10 [] t = "'2'" -> 20 [] t = "'3'" -> 30
      [] t = "' 2 '" -> 20 [] t = "'2.7'" -> 27 [] t = "'3.5'" -> 35
      [] OTHER -> -1

SeqToSet(s) == {s[j] : j \in 1..Len(s)}

\* F applied to the value of v, v being evaluated once.
Let(v, F(_)) == CHOOSE r \in {F(y) : y \in {v}} : TRUE

(***************************************************************************)
(* Errors.  kind is the exception class; an InvalidConfig carries key,     *)
(* code, source_file and source_position.                                  *)
(***************************************************************************)
NoError ==
    [kind |-> "none", key |-> "", code |-> "", file |-> "", pos |-> -1,
     configuration |-> ""]

ConfigError(code) ==
    [kind |-> "ConfigError", key |-> "", code |-> code, file |-> "", pos |-> -1,
     configuration |-> ""]

ConfigOptionNotSupportedError(configuration) ==
    [kind |-> "ConfigOptionNotSupportedError", key |-> "",
     code |-> CONFIG_NOT_SUPPORTED, file |-> "", pos |-> -1,
     configuration |-> configuration]

InvalidConfig(key, code, source_file, source_position) ==
    [kind |-> "InvalidConfig", key |-> key, code |-> code,
     file |-> source_file, pos |-> source_position, configuration |-> ""]

\* An exception that is no ConfigError (TypeError, AssertionError, ...).
Crash(kind) ==
    [kind |-> kind, key |-> "", code |-> "", file |-> "", pos |-> -1,
     configuration |-> ""]

(***************************************************************************)
(* Primitive validators (readthedocs/config/validation.py).  Each returns  *)
(* the ValidationError code it raises, "" when it accepts the value.       *)
(***************************************************************************)
INVALID_BOOL == "invalid-bool"
INVALID_CHOICE == "invalid-choice"
INVALID_LIST == "invalid-list"
INVALID_DICT == "invalid-dictionary"
INVALID_DIRECTORY == "invalid-directory"
INVALID_FILE == "invalid-file"
INVALID_STRING == "invalid-string"
VALUE_NOT_FOUND == "value-not-found"

\* The project directory the checks of existence run against.
ExistingFiles == {"'docs/conf.py'", "'mkdocs.yml'", "'requirements.txt'",
                  "'environment.yml'", "'setup.py'"}
ExistingDirs == {"'docs'"}

validate_bool(v) ==
    IF v.k = "scalar" /\ v.tok \in BoolTokens THEN "" ELSE INVALID_BOOL

validate_choice(t, choices) ==
    IF t \in choices THEN "" ELSE INVALID_CHOICE

validate_dict(section) ==
    IF section.k = "dict" THEN "" ELSE INVALID_DICT

validate_list(v) ==
    IF v.k = "list" THEN "" ELSE INVALID_LIST

validate_string(t) ==
    IF IsStr(t) /\ t # "''" THEN "" ELSE INVALID_STRING

validate_file(v) ==
    IF ~(v.k = "scalar" /\ IsStr(v.tok)) THEN INVALID_STRING
    ELSE IF v.tok \in ExistingFiles THEN "" ELSE INVALID_FILE

validate_directory(v) ==
    IF ~(v.k = "scalar" /\ IsStr(v.tok)) THEN INVALID_STRING
    ELSE IF v.tok \in ExistingDirs THEN "" ELSE INVALID_DIRECTORY

validate_value_exists(v) ==
    IF v.k # "absent" THEN "" ELSE VALUE_NOT_FOUND

\* The first code of a sequence of validator results, "" when all accept.
RECURSIVE FirstCode(_)
FirstCode(codes) ==
    IF codes = <<>> THEN ""
    ELSE IF Head(codes) # "" THEN Head(codes) ELSE FirstCode(Tail(codes))

catch_validation_error_one_based(self, key, code) ==
    IF code = "" THEN NoError
    ELSE InvalidConfig(key, code, self.source_file, self.source_position + 1)

\* catch_validation_error(key): a ValidationError raised inside the block
\* leaves as InvalidConfig for key, with the validator's code and the
\* instance's source location.
catch_validation_error(self, key, code) ==
    IF code = "" THEN NoError
    ELSE InvalidConfig(key, code, self.source_file, self.source_position)

\* self.error(key, message, code)
error(self, key, code) ==
    InvalidConfig(key, code, self.source_file, self.source_position)

(***************************************************************************)
(* Raw documents, environment configs and config instances.                *)
(***************************************************************************)
NoBuild == [k |-> "absent", tok |-> "", image |-> Absent]

NoPython ==
    [k |-> "absent", tok |-> "",
     version |-> Absent, install |-> Absent, extra_requirements |-> Absent,
     requirements |-> Absent, system_packages |-> Absent,
     pip_install |-> Absent, setup_py_install |-> Absent,
     use_system_site_packages |-> Absent, setup_py_path |-> Absent]

NoConda == [k |-> "absent", tok |-> "", file |-> Absent, environment |-> Absent]

NoSphinx ==
    [k |-> "absent", tok |-> "", builder |-> Absent, configuration |-> Absent,
     fail_on_warning |-> Absent]

NoMkdocs ==
    [k |-> "absent", tok |-> "", configuration |-> Absent,
     fail_on_warning |-> Absent]

NoSubmodules ==
    [k |-> "absent", tok |-> "", include |-> Absent, exclude |-> Absent,
     recursive |-> Absent]

\* An empty mapping, and a section that is a scalar (None, a string, ...).
Dict(section) == [section EXCEPT !.k = "dict"]
ScalarSection(section, t) == [section EXCEPT !.k = "scalar", !.tok = t]

\* A document with no key at all.
EmptyDoc ==
    [version |-> Absent, name |-> Absent, base |-> Absent,
     requirements_file |-> Absent, formats |-> Absent,
     build |-> NoBuild, python |-> NoPython, conda |-> NoConda,
     sphinx |-> NoSphinx, mkdocs |-> NoMkdocs, submodules |-> NoSubmodules]

\* env_config.get('defaults', {})
NoDefaults ==
    [build_image |-> Absent, install_project |-> Absent,
     use_system_packages |-> Absent, python_version |-> Absent,
     requirements_file |-> Absent, formats |-> Absent,
     sphinx_configuration |-> Absent]

\* python: the value of env_config['python']['supported_versions'], <<>> when
\* env_config has no 'python' key.  image_settings: the images for which
\* env_config['DOCKER_IMAGE_SETTINGS'] holds an override, each override being
\* {'python': {'supported_versions': [2, 2.7]}}.
BaseEnv ==
    [allow_v2 |-> Absent, output_base |-> Sc("'docs'"), name |-> Sc("'proj'"),
     build |-> NoBuild, python |-> <<>>, image_settings |-> {},
     defaults |-> NoDefaults]

EnvOverrideVersions == <<20, 27>>

\* self._config: has is the set of keys stored so far.
NoneRecord ==
    [none |-> TRUE, file |-> Absent, environment |-> "",
     builder |-> "", configuration |-> "None", fail_on_warning |-> "False"]

EmptyPython ==
    [version |-> 0, requirements |-> "None",
     install_with_setup |-> FALSE, install_with_pip |-> FALSE,
     extra_requirements |-> <<>>, use_system_site_packages |-> "False",
     pip_install |-> "False", setup_py_install |-> "False",
     setup_py_path |-> ""]

EmptySubmodules ==
    [include |-> Ls(<<>>), exclude |-> Ls(<<>>), recursive |-> "False"]

EmptyConfig ==
    [has |-> {}, output_base |-> "", build |-> "", name |-> "", base |-> "",
     python |-> EmptyPython, formats |-> <<>>, conda |-> NoneRecord,
     requirements_file |-> "None", mkdocs |-> NoneRecord,
     sphinx |-> NoneRecord, submodules |-> EmptySubmodules]

\* BuildConfigBase.__init__
BuildConfigBase(cls, env, raw_config, source_file, source_position) ==
    [cls |-> cls, raw_config |-> raw_config, source_file |-> source_file,
     source_position |-> source_position, defaults |-> env.defaults,
     config |-> EmptyConfig]

Store(cfg, key, val) == [cfg EXCEPT ![key] = val, !.has = @ \cup {key}]

\* os.path.abspath(os.path.join(base_path, path)) of an existing path.
AbsPath(t) ==
    CASE t = "'docs/conf.py'" -> "'/proj/docs/conf.py'"
      [] t = "'mkdocs.yml'" -> "'/proj/mkdocs.yml'"
      [] t = "'requirements.txt'" -> "'/proj/requirements.txt'"
      [] t = "'environment.yml'" -> "'/proj/environment.yml'"
      [] t = "'setup.py'" -> "'/proj/setup.py'"
      [] t = "'docs'" -> "'/proj/docs'"
      [] OTHER -> "'/proj/?'"

\* Version coercion shared by both schemas: a str is tried as int, then as
\* float, and otherwise passed through; the result is the number in tenths,
\* -1 for a value that is no number.
CoerceVersion(t) ==
    IF IsStr(t)
    THEN IF IntOfStr(t) # -1 THEN 10 * IntOfStr(t) ELSE FloatOfStr(t)
    ELSE Tenths(t)

(***************************************************************************)
(* BuildConfigV2.  A validate_x operator returns [err, val]: the exception *)
(* it raises (NoError when it returns) and the value it returns.           *)
(***************************************************************************)
Ret(val) == [err |-> NoError, val |-> val]
Raise(err, val) == [err |-> err, val |-> val]

valid_formats == <<"'htmlzip'", "'pdf'", "'epub'">>
valid_build_images == {"'1.0'", "'2.0'", "'3.0'", "'stable'", "'latest'"}
default_build_image == "'latest'"
valid_install_options == {"'pip'", "'setup.py'"}
valid_sphinx_builders(b) ==
    CASE b = "'html'" -> "'sphinx'"
      [] b = "'htmldir'" -> "'sphinx_htmldir'"
      [] b = "'singlehtml'" -> "'sphinx_singlehtml'"
      [] OTHER -> "?"
SphinxBuilderKeys == {"'html'", "'htmldir'", "'singlehtml'"}

\* validate_list(value) and then check(item) for every item, in order.
ListCodes(v, check(_)) ==
    IF validate_list(v) # "" THEN validate_list(v)
    ELSE FirstCode([j \in 1..Len(v.items) |-> check(v.items[j])])

V2_validate_formats(self) ==
    LET formats == Get(self.raw_config.formats, Ls(<<>>))
        choice(t) == validate_choice(t, SeqToSet(valid_formats))
        code == ListCodes(formats, choice)
    IN  IF formats = Sc(ALL) THEN Ret(valid_formats)
        ELSE IF code # ""
             THEN Raise(catch_validation_error(self, "formats", code), <<>>)
             ELSE Ret(formats.items)

V2_validate_conda(self) ==
    LET raw_conda == self.raw_config.conda
        isNone == raw_conda.k = "absent"
                  \/ (raw_conda.k = "scalar" /\ raw_conda.tok = "None")
        code == FirstCode(<<validate_value_exists(raw_conda.environment),
                            validate_file(raw_conda.environment)>>)
    IN  IF isNone THEN Ret(NoneRecord)
        ELSE IF validate_dict(raw_conda) # ""
        THEN Raise(catch_validation_error(self, "conda",
                                          validate_dict(raw_conda)), NoneRecord)
        ELSE IF code # ""
        THEN Raise(catch_validation_error(self, "conda.environment", code),
                   NoneRecord)
        ELSE Ret([NoneRecord EXCEPT !.none = FALSE,
                     !.environment = AbsPath(raw_conda.environment.tok)])

V2_validate_build_no_override(self) ==
    LET raw_build == IF self.raw_config.build.k = "absent" THEN Dict(NoBuild)
                     ELSE self.raw_config.build
        image == Get(raw_build.image, Sc(default_build_image))
    IN  IF validate_dict(raw_build) # "" \/ image.k # "scalar"
           \/ image.tok \notin valid_build_images
        THEN Raise(catch_validation_error(self, "build", INVALID_CHOICE), "")
        ELSE Ret(FormatImage(image.tok))

V2_validate_build(self) ==
    LET raw_build == IF self.raw_config.build.k = "absent" THEN Dict(NoBuild)
                     ELSE self.raw_config.build
        image == Get(raw_build.image, Sc(default_build_image))
        code == IF image.k = "scalar"
                THEN validate_choice(image.tok, valid_build_images)
                ELSE INVALID_CHOICE
        config_image == Get(self.defaults.build_image, Sc("None"))
    IN  IF validate_dict(raw_build) # ""
        THEN Raise(catch_validation_error(self, "build",
                                          validate_dict(raw_build)), "")
        ELSE IF code # ""
        THEN Raise(catch_validation_error(self, "build.image", code), "")
        ELSE IF Truthy(config_image.tok) THEN Ret(config_image.tok)
        ELSE Ret(FormatImage(image.tok))

\* self.build.image is the image validate_build stored.
V2_get_valid_python_versions(build_image) ==
    IF build_image \notin DockerImages
    THEN DOCKER_IMAGE_SETTINGS(FormatImage(default_build_image))
    ELSE DOCKER_IMAGE_SETTINGS(build_image)

V2_extra_requirements_check_any(extra_requirements, install_with_pip) ==
    ~install_with_pip

\* extra_requirements and not python['install_with_pip']
V2_extra_requirements_check(extra_requirements, install_with_pip) ==
    extra_requirements # <<>> /\ ~install_with_pip

V2_validate_python(self, build_image) ==
    LET raw_python == IF self.raw_config.python.k = "absent" THEN Dict(NoPython)
                      ELSE self.raw_config.python
        \* python.version
        rawver == Get(raw_python.version, Sc("3"))
        version == IF rawver.k = "scalar" THEN CoerceVersion(rawver.tok) ELSE -1
        vcode == IF version # -1
                    /\ version \in
                         SeqToSet(V2_get_valid_python_versions(build_image))
                 THEN "" ELSE INVALID_CHOICE
        \* python.requirements
        requirements ==
            Get(raw_python.requirements,
                Get(self.defaults.requirements_file, Sc("None")))
        rcheck == ~(requirements.k = "scalar"
                    /\ requirements.tok \in {"''", "None"})
        rcode == IF rcheck THEN validate_file(requirements) ELSE ""
        rval == IF rcheck THEN AbsPath(requirements.tok) ELSE requirements.tok
        \* python.install
        dinstall ==
            IF Truthy(Get(self.defaults.install_project, Sc("None")).tok)
            THEN Sc("'setup.py'") ELSE Sc("None")
        install == Get(raw_python.install, dinstall)
        icode == IF install = Sc("None") THEN ""
                 ELSE IF install.k = "scalar"
                 THEN validate_choice(install.tok, valid_install_options)
                 ELSE INVALID_CHOICE
        install_with_setup == install = Sc("'setup.py'")
        install_with_pip == install = Sc("'pip'")
        \* python.extra_requirements
        extra == Get(raw_python.extra_requirements, Ls(<<>>))
        ecode == validate_list(extra)
        scode == FirstCode([j \in 1..Len(extra.items) |->
                                validate_string(extra.items[j])])
        \* python.system_packages
        system_packages ==
            Get(raw_python.system_packages,
                Get(self.defaults.use_system_packages, Sc("False")))
        pcode == validate_bool(system_packages)
        fail(key, code) ==
            Raise(catch_validation_error(self, key, code), EmptyPython)
    IN  IF validate_dict(raw_python) # ""
        THEN fail("python", validate_dict(raw_python))
        ELSE IF vcode # "" THEN fail("python.version", vcode)
        ELSE IF rcode # "" THEN fail("python.requirements", rcode)
        ELSE IF icode # "" THEN fail("python.install", icode)
        ELSE IF ecode # "" THEN fail("python.extra_requirements", ecode)
        ELSE IF V2_extra_requirements_check(extra.items, install_with_pip)
        THEN Raise(error(self, "python.extra_requirements", PYTHON_INVALID),
                   EmptyPython)
        ELSE IF scode # "" THEN fail("python.extra_requirements", scode)
        ELSE IF pcode # "" THEN fail("python.system_packages", pcode)
        ELSE Ret([EmptyPython EXCEPT
                     !.version = version,
                     !.requirements = rval,
                     !.install_with_setup = install_with_setup,
                     !.install_with_pip = install_with_pip,
                     !.extra_requirements = extra.items,
                     !.use_system_site_packages = system_packages.tok])

IsNoneSection(section) ==
    section.k = "absent" \/ (section.k = "scalar" /\ section.tok = "None")

V2_both_doc_types_not_none(raw_config) ==
    ~IsNoneSection(raw_config.sphinx) /\ ~IsNoneSection(raw_config.mkdocs)

\* 'sphinx' in self.raw_config and 'mkdocs' in self.raw_config
V2_both_doc_types(raw_config) ==
    raw_config.sphinx.k # "absent" /\ raw_config.mkdocs.k # "absent"

V2_validate_doc_types(self) ==
    IF V2_both_doc_types(self.raw_config)
    THEN Raise(error(self, ".", INVALID_KEYS_COMBINATION), "")
    ELSE Ret("")

\* An optional path: None stays None, anything else must be an existing file.
OptionalFileCode(v) ==
    IF v = Sc("None") THEN "" ELSE validate_file(v)
OptionalFileVal(v) ==
    IF v = Sc("None") THEN "None" ELSE AbsPath(v.tok)

V2_validate_mkdocs(self) ==
    LET raw_mkdocs == self.raw_config.mkdocs
        configuration == Get(raw_mkdocs.configuration, Sc("None"))
        fail_on_warning == Get(raw_mkdocs.fail_on_warning, Sc("False"))
        fail(key, code) ==
            Raise(catch_validation_error(self, key, code), NoneRecord)
    IN  IF IsNoneSection(raw_mkdocs) THEN Ret(NoneRecord)
        ELSE IF validate_dict(raw_mkdocs) # ""
        THEN fail("mkdocs", validate_dict(raw_mkdocs))
        ELSE IF OptionalFileCode(configuration) # ""
        THEN fail("mkdocs.configuration", OptionalFileCode(configuration))
        ELSE IF validate_bool(fail_on_warning) # ""
        THEN fail("mkdocs.fail_on_warning", validate_bool(fail_on_warning))
        ELSE Ret([NoneRecord EXCEPT !.none = FALSE,
                     !.configuration = OptionalFileVal(configuration),
                     !.fail_on_warning = fail_on_warning.tok])

\* mkdocs is the record validate_mkdocs stored (the self.mkdocs property).
V2_validate_sphinx(self, mkdocs) ==
    LET given == self.raw_config.sphinx
        raw_sphinx == IF IsNoneSection(given) THEN Dict(NoSphinx) ELSE given
        builder == Get(raw_sphinx.builder, Sc("'html'"))
        bcode == IF builder.k = "scalar"
                 THEN validate_choice(builder.tok, SphinxBuilderKeys)
                 ELSE INVALID_CHOICE
        dconf == Get(self.defaults.sphinx_configuration, Sc("None"))
        configuration ==
            Get(raw_sphinx.configuration,
                IF dconf.k = "scalar" /\ ~Truthy(dconf.tok)
                THEN Sc("None") ELSE dconf)
        fail_on_warning == Get(raw_sphinx.fail_on_warning, Sc("False"))
        fail(key, code) ==
            Raise(catch_validation_error(self, key, code), NoneRecord)
    IN  IF IsNoneSection(given) /\ ~mkdocs.none THEN Ret(NoneRecord)
        ELSE IF validate_dict(raw_sphinx) # ""
        THEN fail("sphinx", validate_dict(raw_sphinx))
        ELSE IF bcode # "" THEN fail("sphinx.builder", bcode)
        ELSE IF OptionalFileCode(configuration) # ""
        THEN fail("sphinx.configuration", OptionalFileCode(configuration))
        ELSE IF validate_bool(fail_on_warning) # ""
        THEN fail("sphinx.fail_on_warning", validate_bool(fail_on_warning))
        ELSE Ret([NoneRecord EXCEPT !.none = FALSE,
                     !.builder = valid_sphinx_builders(builder.tok),
                     !.configuration = OptionalFileVal(configuration),
                     !.fail_on_warning = fail_on_warning.tok])

\* include / exclude: the ALL keyword or a list of strings.
SubmoduleListCode(v) ==
    IF v = Sc(ALL) THEN "" ELSE ListCodes(v, validate_string)

\* Truthiness of a validated include / exclude value.
NonEmptyValue(v) == v = Sc(ALL) \/ (v.k = "list" /\ v.items # <<>>)

V2_submodules_conflict_lists_only(include, exclude) ==
    /\ exclude.k = "list" /\ exclude.items # <<>>
    /\ include.k = "list" /\ include.items # <<>>

\* submodules['exclude'] and submodules['include']
V2_submodules_conflict(include, exclude) ==
    NonEmptyValue(exclude) /\ NonEmptyValue(include)

V2_validate_submodules(self) ==
    LET raw_submodules ==
            IF self.raw_config.submodules.k = "absent" THEN Dict(NoSubmodules)
            ELSE self.raw_config.submodules
        include == Get(raw_submodules.include, Ls(<<>>))
        exclude == Get(raw_submodules.exclude, Ls(<<>>))
        recursive == Get(raw_submodules.recursive, Sc("False"))
        fail(key, code) ==
            Raise(catch_validation_error(self, key, code), EmptySubmodules)
    IN  IF validate_dict(raw_submodules) # ""
        THEN fail("submodules", validate_dict(raw_submodules))
        ELSE IF SubmoduleListCode(include) # ""
        THEN fail("submodules.include", SubmoduleListCode(include))
        ELSE IF SubmoduleListCode(exclude) # ""
        THEN fail("submodules.exclude", SubmoduleListCode(exclude))
        ELSE IF V2_submodules_conflict(include, exclude)
        THEN Raise(error(self, "submodules", SUBMODULES_INVALID),
                   EmptySubmodules)
        ELSE IF validate_bool(recursive) # ""
        THEN fail("submodules.recursive", validate_bool(recursive))
        ELSE Ret([include |-> include, exclude |-> exclude,
                  recursive |-> recursive.tok])

\* BuildConfigV2.validate: [config, err], the instance's _config when
\* validate ends and the exception it raises.
V2_validate_doc_types_last(self) ==
    LET end(c, e) == [config |-> c, err |-> e]
    IN
    Let(self.config, LAMBDA c0 :
    Let(V2_validate_formats(self), LAMBDA formats :
    IF formats.err # NoError THEN end(c0, formats.err) ELSE
    Let(Store(c0, "formats", formats.val), LAMBDA c1 :
    Let(V2_validate_conda(self), LAMBDA conda :
    IF conda.err # NoError THEN end(c1, conda.err) ELSE
    Let(Store(c1, "conda", conda.val), LAMBDA c2 :
    Let(V2_validate_build(self), LAMBDA build :
    IF build.err # NoError THEN end(c2, build.err) ELSE
    Let(Store(c2, "build", build.val), LAMBDA c3 :
    Let(V2_validate_python(self, c3.build), LAMBDA python :
    IF python.err # NoError THEN end(c3, python.err) ELSE
    Let(Store(c3, "python", python.val), LAMBDA c4 :
    Let(V2_validate_mkdocs(self), LAMBDA mkdocs :
    IF mkdocs.err # NoError THEN end(c4, mkdocs.err) ELSE
    Let(Store(c4, "mkdocs", mkdocs.val), LAMBDA c5 :
    Let(V2_validate_sphinx(self, c5.mkdocs), LAMBDA sphinx :
    IF sphinx.err # NoError THEN end(c5, sphinx.err) ELSE
    Let(Store(c5, "sphinx", sphinx.val), LAMBDA c6 :
    Let(V2_validate_doc_types(self), LAMBDA doc_types :
    IF doc_types.err # NoError THEN end(c6, doc_types.err) ELSE
    Let(V2_validate_submodules(self), LAMBDA submodules :
    IF submodules.err # NoError THEN end(c6, submodules.err) ELSE
    end(Store(c6, "submodules", submodules.val), NoError)
    )))))))))))))))

V2_validate(self) ==
    LET end(c, e) == [config |-> c, err |-> e]
    IN
    Let(self.config, LAMBDA c0 :
    Let(V2_validate_formats(self), LAMBDA formats :
    IF formats.err # NoError THEN end(c0, formats.err) ELSE
    Let(Store(c0, "formats", formats.val), LAMBDA c1 :
    Let(V2_validate_conda(self), LAMBDA conda :
    IF conda.err # NoError THEN end(c1, conda.err) ELSE
    Let(Store(c1, "conda", conda.val), LAMBDA c2 :
    Let(V2_validate_build(self), LAMBDA build :
    IF build.err # NoError THEN end(c2, build.err) ELSE
    Let(Store(c2, "build", build.val), LAMBDA c3 :
    Let(V2_validate_python(self, c3.build), LAMBDA python :
    IF python.err # NoError THEN end(c3, python.err) ELSE
    Let(Store(c3, "python", python.val), LAMBDA c4 :
    Let(V2_validate_doc_types(self), LAMBDA doc_types :
    IF doc_types.err # NoError THEN end(c4, doc_types.err) ELSE
    Let(V2_validate_mkdocs(self), LAMBDA mkdocs :
    IF mkdocs.err # NoError THEN end(c4, mkdocs.err) ELSE
    Let(Store(c4, "mkdocs", mkdocs.val), LAMBDA c5 :
    Let(V2_validate_sphinx(self, c5.mkdocs), LAMBDA sphinx :
    IF sphinx.err # NoError THEN end(c5, sphinx.err) ELSE
    Let(Store(c5, "sphinx", sphinx.val), LAMBDA c6 :
    Let(V2_validate_submodules(self), LAMBDA submodules :
    IF submodules.err # NoError THEN end(c6, submodules.err) ELSE
    end(Store(c6, "submodules", submodules.val), NoError)
    )))))))))))))))

(***************************************************************************)
(* BuildConfigV1.                                                          *)
(***************************************************************************)
PYTHON_SUPPORTED_VERSIONS == <<20, 27, 30, 35>>
DOCKER_SUPPORTED_VERSIONS == {"'1.0'", "'2.0'", "'latest'"}

V1_get_valid_python_versions(env) ==
    IF env.python # <<>> THEN env.python ELSE PYTHON_SUPPORTED_VERSIONS

V1_get_valid_formats == {"'htmlzip'", "'pdf'", "'epub'"}

V1_validate_output_base(self, env) ==
    IF env.output_base.k = "absent" THEN Raise(Crash("AssertionError"), "")
    ELSE IF ~(env.output_base.k = "scalar" /\ IsStr(env.output_base.tok))
    THEN Raise(Crash("TypeError"), "")
    ELSE Ret(AbsPath(env.output_base.tok))

\* [err, val, env]: env is env_config as validate_build leaves it.
V1_validate_build(self, env) ==
    LET \* Defaults
        image0 == IF env.build.k = "dict" THEN env.build.image
                  ELSE Sc(DOCKER_IMAGE)
        \* User specified
        _build == self.raw_config.build
        given == _build.k = "dict" /\ _build.image.k # "absent"
        chosen == IF _build.image.k = "scalar" THEN StrOf(_build.image.tok)
                  ELSE "'?'"
        code == IF given THEN validate_choice(chosen, DOCKER_SUPPORTED_VERSIONS)
                ELSE ""
        image1 == IF given THEN Sc(chosen) ELSE image0
        image2 == IF _build.k # "absent" /\ ~HasColon(image1.tok)
                  THEN FormatImage(image1.tok) ELSE image1.tok
        \* Update docker default settings from image name
        env1 == IF image2 \in DockerImages
                THEN [env EXCEPT !.python = DOCKER_IMAGE_SETTINGS(image2)]
                ELSE env
        \* Update docker settings from user config
        env2 == IF image2 \in env1.image_settings
                THEN [env1 EXCEPT !.python = EnvOverrideVersions]
                ELSE env1
        \* Allow to override specific project
        config_image == Get(self.defaults.build_image, Sc("None"))
        image3 == IF Truthy(config_image.tok) THEN config_image.tok ELSE image2
    IN  IF _build.k = "scalar" /\ ~IsStr(_build.tok)
        THEN [err |-> Crash("TypeError"), val |-> "", env |-> env]
        ELSE IF code # ""
        THEN [err |-> catch_validation_error(self, "build", code), val |-> "",
              env |-> env]
        ELSE IF image1.k # "scalar" \/ ~IsStr(image1.tok)
        THEN [err |-> Crash(IF image1.k = "absent" THEN "KeyError"
                            ELSE "TypeError"), val |-> "", env |-> env]
        ELSE [err |-> NoError, val |-> image3, env |-> env2]

V1_validate_name(self, env) ==
    LET raw_name == Get(self.raw_config.name, Sc("None"))
        falsy(v) == (v.k = "scalar" /\ ~Truthy(v.tok))
                    \/ (v.k = "list" /\ v.items = <<>>)
        name == IF falsy(raw_name) THEN Get(env.name, Sc("None")) ELSE raw_name
    IN  IF falsy(name) THEN Raise(error(self, "name", NAME_REQUIRED), "")
        ELSE IF ~(name.k = "scalar" /\ IsStr(name.tok))
        THEN Raise(Crash("TypeError"), "")
        ELSE IF ~NameMatches(name.tok)
        THEN Raise(error(self, "name", NAME_INVALID), "")
        ELSE Ret(name.tok)

V1_validate_base(self) ==
    LET base == self.raw_config.base
    IN  IF base.k = "absent" THEN Ret("'/proj'")
        ELSE IF validate_directory(base) # ""
        THEN Raise(catch_validation_error(self, "base",
                                          validate_directory(base)), "")
        ELSE Ret(AbsPath(base.tok))

\* isinstance(raw_extra_requirements, list) failed
V1_extra_requirements_invalid(raw_extra_requirements) ==
    raw_extra_requirements.k # "list"

V1_validate_python(self, env) ==
    LET install_project == Get(self.defaults.install_project, Sc("False"))
        use_system_packages ==
            Get(self.defaults.use_system_packages, Sc("False"))
        dversion == Get(self.defaults.python_version, Sc("2"))
        raw_python == self.raw_config.python
        present(v) == raw_python.k = "dict" /\ v.k # "absent"
        optbool(v) == IF present(v) THEN validate_bool(v) ELSE ""
        extra == raw_python.extra_requirements
        scode == FirstCode([j \in 1..Len(extra.items) |->
                                validate_string(extra.items[j])])
        spcode == IF present(raw_python.setup_py_path)
                  THEN validate_file(raw_python.setup_py_path) ELSE ""
        version == IF raw_python.version.k = "scalar"
                   THEN CoerceVersion(raw_python.version.tok) ELSE -1
        vcode == IF ~present(raw_python.version) THEN ""
                 ELSE IF version # -1
                         /\ version \in
                              SeqToSet(V1_get_valid_python_versions(env))
                 THEN "" ELSE INVALID_CHOICE
        fail(key, code) ==
            Raise(catch_validation_error(self, key, code), EmptyPython)
    IN  IF raw_python.k = "scalar"
        THEN Raise(error(self, "python", PYTHON_INVALID), EmptyPython)
        ELSE IF optbool(raw_python.use_system_site_packages) # ""
        THEN fail("python.use_system_site_packages",
                  optbool(raw_python.use_system_site_packages))
        ELSE IF optbool(raw_python.pip_install) # ""
        THEN fail("python.pip_install", optbool(raw_python.pip_install))
        ELSE IF present(extra) /\ V1_extra_requirements_invalid(extra)
        THEN Raise(error(self, "python.extra_requirements", PYTHON_INVALID),
                   EmptyPython)
        ELSE IF present(extra) /\ scode # ""
        THEN fail("python.extra_requirements", scode)
        ELSE IF optbool(raw_python.setup_py_install) # ""
        THEN fail("python.setup_py_install",
                  optbool(raw_python.setup_py_install))
        ELSE IF spcode # "" THEN fail("python.setup_py_path", spcode)
        ELSE IF vcode # "" THEN fail("python.version", vcode)
        ELSE Ret([EmptyPython EXCEPT
                     !.use_system_site_packages =
                         IF present(raw_python.use_system_site_packages)
                         THEN raw_python.use_system_site_packages.tok
                         ELSE use_system_packages.tok,
                     !.pip_install =
                         IF present(raw_python.pip_install)
                         THEN raw_python.pip_install.tok ELSE "False",
                     !.extra_requirements =
                         IF present(extra) THEN extra.items ELSE <<>>,
                     !.setup_py_install =
                         IF present(raw_python.setup_py_install)
                         THEN raw_python.setup_py_install.tok
                         ELSE install_project.tok,
                     !.setup_py_path =
                         IF present(raw_python.setup_py_path)
                         THEN AbsPath(raw_python.setup_py_path.tok)
                         ELSE "'/proj/setup.py'",
                     !.version =
                         IF present(raw_python.version) THEN version
                         ELSE Tenths(dversion.tok)])

V1_validate_conda(self) ==
    LET raw_conda == self.raw_config.conda
        given == raw_conda.k = "dict" /\ raw_conda.file.k # "absent"
    IN  IF raw_conda.k = "absent" THEN Ret(NoneRecord)
        ELSE IF raw_conda.k # "dict"
        THEN Raise(error(self, "conda", PYTHON_INVALID), NoneRecord)
        ELSE IF given /\ validate_file(raw_conda.file) # ""
        THEN Raise(catch_validation_error(self, "conda.file",
                                          validate_file(raw_conda.file)),
                   NoneRecord)
        ELSE Ret([NoneRecord EXCEPT !.none = FALSE,
                     !.file = IF given THEN Sc(AbsPath(raw_conda.file.tok))
                              ELSE Absent])

V1_validate_requirements_file(self) ==
    LET requirements_file ==
            IF self.raw_config.requirements_file.k = "absent"
            THEN Get(self.defaults.requirements_file, Sc("None"))
            ELSE self.raw_config.requirements_file
        falsy == (requirements_file.k = "scalar"
                  /\ ~Truthy(requirements_file.tok))
                 \/ (requirements_file.k = "list"
                     /\ requirements_file.items = <<>>)
    IN  IF falsy THEN Ret("None")
        ELSE IF validate_file(requirements_file) # ""
        THEN Raise(catch_validation_error(self, "requirements_file",
                                          validate_file(requirements_file)),
                   "None")
        ELSE Ret(requirements_file.tok)

V1_validate_formats_accumulating(self) ==
    LET formats == Get(self.raw_config.formats, Sc("None"))
        choice(t) == validate_choice(t, V1_get_valid_formats)
        code == ListCodes(formats, choice)
    IN  IF formats = Sc("None") \/ code # "" THEN Ret(<<>>)
        ELSE Ret(self.config.formats \o formats.items)

V1_validate_formats(self) ==
    LET formats == Get(self.raw_config.formats, Sc("None"))
        dformats == Get(self.defaults.formats, Ls(<<>>))
        choice(t) == validate_choice(t, V1_get_valid_formats)
        code == ListCodes(formats, choice)
    IN  IF formats = Sc("None") THEN Ret(dformats.items)
        ELSE IF formats = Ls(<<"'none'">>) THEN Ret(<<>>)
        ELSE IF code # ""
        THEN Raise(catch_validation_error(self, "format", code), <<>>)
        ELSE Ret(formats.items)

V1_validate_formats_before_python(self, env) ==
    LET end(c, e, v) == [config |-> c, err |-> e, env |-> v]
    IN
    Let(self.config, LAMBDA c0 :
    Let(V1_validate_output_base(self, env), LAMBDA output_base :
    IF output_base.err # NoError THEN end(c0, output_base.err, env) ELSE
    Let(Store(c0, "output_base", output_base.val), LAMBDA c1 :
    Let(V1_validate_build(self, env), LAMBDA build :
    IF build.err # NoError THEN end(c1, build.err, build.env) ELSE
    Let(Store(c1, "build", build.val), LAMBDA c2 :
    Let(V1_validate_name(self, build.env), LAMBDA name :
    IF name.err # NoError THEN end(c2, name.err, build.env) ELSE
    Let(Store(c2, "name", name.val), LAMBDA c3 :
    Let(V1_validate_base(self), LAMBDA base :
    IF base.err # NoError THEN end(c3, base.err, build.env) ELSE
    Let(Store(c3, "base", base.val), LAMBDA c4 :
    Let(V1_validate_formats(self), LAMBDA formats :
    IF formats.err # NoError THEN end(c4, formats.err, build.env) ELSE
    Let(Store(c4, "formats", formats.val), LAMBDA c5 :
    Let(V1_validate_python(self, build.env), LAMBDA python :
    IF python.err # NoError THEN end(c5, python.err, build.env) ELSE
    Let(Store(c5, "python", python.val), LAMBDA c6 :
    Let(V1_validate_conda(self), LAMBDA conda :
    IF conda.err # NoError THEN end(c6, conda.err, build.env) ELSE
    Let(Store(c6, "conda", conda.val), LAMBDA c7 :
    Let(V1_validate_requirements_file(self), LAMBDA requirements_file :
    IF requirements_file.err # NoError
    THEN end(c7, requirements_file.err, build.env) ELSE
    end(Store(c7, "requirements_file", requirements_file.val), NoError,
        build.env)
    ))))))))))))))))

\* BuildConfigV1.validate: [config, err, env], the instance's _config and
\* env_config when validate ends, and the exception it raises.
V1_validate(self, env) ==
    LET end(c, e, v) == [config |-> c, err |-> e, env |-> v]
    IN
    Let(self.config, LAMBDA c0 :
    Let(V1_validate_output_base(self, env), LAMBDA output_base :
    IF output_base.err # NoError THEN end(c0, output_base.err, env) ELSE
    Let(Store(c0, "output_base", output_base.val), LAMBDA c1 :
    Let(V1_validate_build(self, env), LAMBDA build :
    IF build.err # NoError THEN end(c1, build.err, build.env) ELSE
    Let(Store(c1, "build", build.val), LAMBDA c2 :
    Let(V1_validate_name(self, build.env), LAMBDA name :
    IF name.err # NoError THEN end(c2, name.err, build.env) ELSE
    Let(Store(c2, "name", name.val), LAMBDA c3 :
    Let(V1_validate_base(self), LAMBDA base :
    IF base.err # NoError THEN end(c3, base.err, build.env) ELSE
    Let(Store(c3, "base", base.val), LAMBDA c4 :
    Let(V1_validate_python(self, build.env), LAMBDA python :
    IF python.err # NoError THEN end(c4, python.err, build.env) ELSE
    Let(Store(c4, "python", python.val), LAMBDA c5 :
    Let(V1_validate_formats(self), LAMBDA formats :
    IF formats.err # NoError THEN end(c5, formats.err, build.env) ELSE
    Let(Store(c5, "formats", formats.val), LAMBDA c6 :
    Let(V1_validate_conda(self), LAMBDA conda :
    IF conda.err # NoError THEN end(c6, conda.err, build.env) ELSE
    Let(Store(c6, "conda", conda.val), LAMBDA c7 :
    Let(V1_validate_requirements_file(self), LAMBDA requirements_file :
    IF requirements_file.err # NoError
    THEN end(c7, requirements_file.err, build.env) ELSE
    end(Store(c7, "requirements_file", requirements_file.val), NoError,
        build.env)
    ))))))))))))))))

\* Properties of a validated BuildConfigV1.
V1_pip_install(self) == self.config.python.pip_install

V1_install_project(self) ==
    IF Truthy(V1_pip_install(self)) THEN "True"
    ELSE self.config.python.setup_py_install

V1_extra_requirements_unconditional(self) ==
    self.config.python.extra_requirements

V1_extra_requirements(self) ==
    IF Truthy(V1_pip_install(self)) THEN self.config.python.extra_requirements
    ELSE <<>>

(***************************************************************************)
(* Attribute reads.  A read returns [err, val]: the exception it raises     *)
(* and the value it returns, a scalar as its token.                        *)
(***************************************************************************)
\* The names each class defines as properties or methods.
BaseAttributes == {"python_interpreter", "python_full_version", "validate"}

V1Attributes ==
    BaseAttributes \cup
    {"name", "base", "output_base", "formats", "python", "python_version",
     "pip_install", "install_project", "extra_requirements",
     "use_system_site_packages", "use_conda", "conda_file",
     "requirements_file", "build_image"}

V2Attributes ==
    BaseAttributes \cup
    {"formats", "conda", "build", "python", "sphinx", "mkdocs", "doctype",
     "submodules"}

Attributes(cls) == IF cls = "V1" THEN V1Attributes ELSE V2Attributes

\* str(ver) of a version held in tenths.
VersionToken(v) ==
    CASE v = 20 -> "2" [] v = 27 -> "2.7" [] v = 30 -> "3" [] v = 33 -> "3.3"
      [] v = 34 -> "3.4" [] v = 35 -> "3.5" [] v = 36 -> "3.6"
      [] v = 10 -> "1" [] v = 40 -> "4" [] v = 0 -> "0" [] v = 25 -> "2.5"
      [] OTHER -> "?"

\* 'python{0}'.format(ver)
FormatInterpreter(v) ==
    CASE v = 20 -> "python2" [] v = 27 -> "python2.7" [] v = 30 -> "python3"
      [] v = 33 -> "python3.3" [] v = 34 -> "python3.4"
      [] v = 35 -> "python3.5" [] v = 36 -> "python3.6"
      [] v = 10 -> "python1" [] v = 40 -> "python4" [] v = 0 -> "python0"
      [] v = 25 -> "python2.5"
      [] OTHER -> "python?"

SetMax(S) == CHOOSE v \in S : \A w \in S : w <= v

getattr_default(name) == Ret("None")

\* BuildConfigBase.__getattr__, reached for a name the class does not define.
getattr_unknown(name) == Raise(ConfigOptionNotSupportedError(name), "")

\* self.python_version: [err, val], val in tenths.
python_version(self) ==
    IF "python_version" \notin Attributes(self.cls)
    THEN Raise(getattr_unknown("python_version").err, -1)
    ELSE IF "python" \notin self.config.has THEN Raise(Crash("KeyError"), -1)
    ELSE Ret(self.config.python.version)

\* self.get_valid_python_versions() as a property read finds it.
get_valid_python_versions(self, env) ==
    IF self.cls = "V1" THEN V1_get_valid_python_versions(env)
    ELSE V2_get_valid_python_versions(self.config.build)

\* BuildConfigBase.python_full_version: [err, val], val in tenths.
python_full_version(self, env) ==
    LET ver == python_version(self)
        valid == SeqToSet(get_valid_python_versions(self, env))
        below == {v \in valid : v < ver.val + 10}
    IN  IF ver.err # NoError THEN ver
        ELSE IF ver.val \in {20, 30}
        THEN IF below = {} THEN Raise(Crash("ValueError"), -1)
             ELSE Ret(SetMax(below))
        ELSE ver

\* BuildConfigBase.python_interpreter
python_interpreter(self, env) ==
    LET ver == python_full_version(self, env)
    IN  IF ver.err # NoError THEN Raise(ver.err, "")
        ELSE Ret(FormatInterpreter(ver.val))

\* BuildConfigV2.mkdocs and BuildConfigV2.sphinx: the record is None or a
\* namedtuple of the stored fields.
V2_record(self, key) ==
    IF key \notin self.config.has THEN Raise(Crash("KeyError"), NoneRecord)
    ELSE Ret(self.config[key])

\* A doctype that never looks at the records.
V2_doctype_always_sphinx(self) == Ret("'sphinx'")

\* BuildConfigV2.doctype
V2_doctype(self) ==
    LET mkdocs == V2_record(self, "mkdocs")
        sphinx == V2_record(self, "sphinx")
    IN  IF mkdocs.err # NoError THEN Raise(mkdocs.err, "")
        ELSE IF ~mkdocs.val.none THEN Ret("'mkdocs'")
        ELSE IF sphinx.err # NoError THEN Raise(sphinx.err, "")
        ELSE IF sphinx.val.none THEN getattr_unknown("doctype")
        ELSE Ret(sphinx.val.builder)

\* self._config[key] of a v1 field held as a scalar.
V1_field(self, key) ==
    IF key \notin self.config.has THEN Raise(Crash("KeyError"), "")
    ELSE Ret(self.config[key])

\* The names the model reads.
AttrNames ==
    {"python_version", "python_full_version", "python_interpreter", "name",
     "build_image", "doctype", "sphinx", "mkdocs"}

\* getattr(self, name) for name in AttrNames.
getattr(self, env, name) ==
    IF name \notin Attributes(self.cls) THEN getattr_unknown(name)
    ELSE IF name = "python_version"
    THEN Let(python_version(self), LAMBDA r :
             IF r.err # NoError THEN Raise(r.err, "")
             ELSE Ret(VersionToken(r.val)))
    ELSE IF name = "python_full_version"
    THEN Let(python_full_version(self, env), LAMBDA r :
             IF r.err # NoError THEN Raise(r.err, "")
             ELSE Ret(VersionToken(r.val)))
    ELSE IF name = "python_interpreter" THEN python_interpreter(self, env)
    ELSE IF name = "name" THEN V1_field(self, "name")
    ELSE IF name = "build_image" THEN V1_field(self, "build")
    ELSE IF name = "sphinx"
    THEN Let(V2_record(self, "sphinx"), LAMBDA r :
             IF r.err # NoError THEN Raise(r.err, "")
             ELSE IF r.val.none THEN Ret("None") ELSE Ret("Sphinx"))
    ELSE IF name = "mkdocs"
    THEN Let(V2_record(self, "mkdocs"), LAMBDA r :
             IF r.err # NoError THEN Raise(r.err, "")
             ELSE IF r.val.none THEN Ret("None") ELSE Ret("Mkdocs"))
    ELSE V2_doctype(self)

(***************************************************************************)
(* Collaborators of load: the locator (find.py) and the parser (parser.py).*)
(***************************************************************************)
\* find_one(path, filenames): the first of filenames that exists in the
\* directory, '' when none does.
find_one(dir, filenames) ==
    IF \E j \in 1..Len(filenames) : filenames[j] \in dir
    THEN filenames[CHOOSE j \in 1..Len(filenames) :
                     /\ filenames[j] \in dir
                     /\ \A m \in 1..(j - 1) : filenames[m] \notin dir]
    ELSE ""

\* Documents a file can hold.
WithVersion(doc, v) == [doc EXCEPT !.version = v]

ExtrasDoc ==
    [EmptyDoc EXCEPT !.python =
        [Dict(NoPython) EXCEPT !.extra_requirements = Ls(<<"'tests'">>)]]

BadFormatsDoc == [EmptyDoc EXCEPT !.formats = Ls(<<"'odt'">>)]

NullBuildDoc == [EmptyDoc EXCEPT !.build = ScalarSection(NoBuild, "None")]

\* build: {image: '1.0'}
OldImageDoc ==
    [EmptyDoc EXCEPT !.build = [Dict(NoBuild) EXCEPT !.image = Sc("'1.0'")]]

\* python: {version: 3.4}
Python34Doc ==
    [EmptyDoc EXCEPT !.python = [Dict(NoPython) EXCEPT !.version = Sc("3.4")]]

DeclaredVersions ==
    {Absent, Sc("1"), Sc("2"), Sc("3"), Sc("'1'"), Sc("'2'"), Sc("'abc'"),
     Sc("None"), Sc("2.5"), Ls(<<"2">>)}

LoadDocs ==
    {WithVersion(EmptyDoc, v) : v \in DeclaredVersions}
    \cup {WithVersion(d, v) : d \in {ExtrasDoc, BadFormatsDoc},
                             v \in {Absent, Sc("2")}}
    \cup {NullBuildDoc, OldImageDoc, Python34Doc}

\* parse(text): the ordered documents of the file; ParseError is the other
\* outcome.
RECURSIVE SeqsUpTo(_, _)
SeqsUpTo(S, n) ==
    IF n = 0 THEN {<<>>}
    ELSE SeqsUpTo(S, n - 1)
         \cup {Append(q, d) : q \in {r \in SeqsUpTo(S, n - 1) : Len(r) = n - 1},
                              d \in S}

ParsedFiles == SeqsUpTo(LoadDocs, MaxDocs)

\* env_config['build'] naming an image outside DOCKER_IMAGE_SETTINGS.
CustomImageEnv ==
    [BaseEnv EXCEPT !.build =
        [Dict(NoBuild) EXCEPT !.image = Sc("'custom/image:1'")]]

LoadEnvs ==
    {[BaseEnv EXCEPT !.allow_v2 = a] : a \in {Absent, Sc("False"), Sc("True")}}
    \cup {CustomImageEnv}

(***************************************************************************)
(* load and get_configuration_class.                                       *)
(***************************************************************************)
\* [err, cls]
get_configuration_class(version) ==
    LET n == IF version.k # "scalar" \/ version.tok = "None" THEN -2
             ELSE IF IsStr(version.tok) THEN IntOfStr(version.tok)
             ELSE IntOfNumber(version.tok)
    IN  IF n = -2 THEN [err |-> Crash("TypeError"), cls |-> ""]
        ELSE IF n = 1 THEN [err |-> NoError, cls |-> "V1"]
        ELSE IF n = 2 THEN [err |-> NoError, cls |-> "V2"]
        ELSE [err |-> ConfigError(VERSION_INVALID), cls |-> ""]

\* The version load resolves for one document.
load_version_ungated(env, config) == Get(config.version, Sc("1"))

load_version(env, config) ==
    IF Truthy(Get(env.allow_v2, Sc("None")).tok)
    THEN Get(config.version, Sc("1"))
    ELSE Sc("1")

\* One iteration of the loop over enumerate(configs): [err, build_config].
load_build_config_one_based(env, config, source_file, i) ==
    LET c == get_configuration_class(load_version(env, config))
    IN  [err |-> c.err,
         build_config |->
             BuildConfigBase(c.cls, env, config, source_file, i + 1)]

load_build_config(env, config, source_file, i) ==
    LET c == get_configuration_class(load_version(env, config))
    IN  [err |-> c.err,
         build_config |-> BuildConfigBase(c.cls, env, config, source_file, i)]

\* The error of the 'not filename' branch.
load_not_found_syntax == ConfigError(CONFIG_SYNTAX_INVALID)

load_not_found == ConfigError(CONFIG_REQUIRED)

\* A BuildConfigV2.validate that merges the default image's docker settings
\* into env_config.
BuildConfig_validate_v2_merges(self, env) ==
    IF self.cls = "V1" THEN V1_validate(self, env)
    ELSE Let(V2_validate(self), LAMBDA r :
             [config |-> r.config, err |-> r.err,
              env |-> [env EXCEPT !.python =
                          DOCKER_IMAGE_SETTINGS(FormatImage("'latest'"))]])

\* build.validate() of either class: [config, err, env].
BuildConfig_validate(self, env) ==
    IF self.cls = "V1" THEN V1_validate(self, env)
    ELSE Let(V2_validate(self), LAMBDA r :
             [config |-> r.config, err |-> r.err, env |-> env])

\* What load has done so far: the calls it made, in order; err is the
\* exception a validate() call raised.
Event(op, pos) ==
    [op |-> op, pos |-> pos, err |-> NoError, name |-> "", val |-> "",
     config |-> EmptyConfig]
NotReturned == [returned |-> FALSE, items |-> <<>>]

Init ==
    /\ pc = "load"
    /\ env_config \in LoadEnvs
    /\ filename = ""
    /\ configs = <<>>
    /\ build_configs = <<>>
    /\ validated = 0
    /\ project_config = NotReturned
    /\ raised = NoError
    /\ trace = <<>>

\* filename = find_one(path, CONFIG_FILENAMES) and the 'not filename' branch.
Locate ==
    /\ pc = "load"
    /\ \E dir \in SUBSET SeqToSet(CONFIG_FILENAMES) :
          \E f \in {find_one(dir, CONFIG_FILENAMES)} :
              /\ filename' = f
              /\ IF f = ""
                 THEN pc' = "raised" /\ raised' = load_not_found
                 ELSE pc' = "open" /\ raised' = raised
    /\ trace' = Append(trace, Event("find_one", -1))
    /\ UNCHANGED <<env_config, configs, build_configs, validated,
                   project_config>>

\* configs = parse(configuration_file.read()), ParseError included.
ReadParse ==
    /\ pc = "open"
    /\ trace' = trace \o <<Event("read", -1), Event("parse", -1)>>
    /\ \/ /\ pc' = "raised"
          /\ raised' = ConfigError(CONFIG_SYNTAX_INVALID)
          /\ configs' = configs
       \/ /\ pc' = "loop"
          /\ raised' = raised
          /\ configs' \in ParsedFiles
    /\ UNCHANGED <<env_config, filename, build_configs, validated,
                   project_config>>

\* One iteration of 'for i, config in enumerate(configs)'.
Instantiate ==
    /\ pc = "loop"
    /\ Len(build_configs) < Len(configs)
    /\ \E i \in {Len(build_configs)} :
       \E r \in {load_build_config(env_config, configs[i + 1], filename, i)} :
           /\ trace' = Append(trace, Event("new", i))
           /\ IF r.err # NoError
              THEN /\ pc' = "raised"
                   /\ raised' = r.err
                   /\ build_configs' = build_configs
              ELSE /\ pc' = pc
                   /\ raised' = raised
                   /\ build_configs' = Append(build_configs, r.build_config)
    /\ UNCHANGED <<env_config, filename, configs, validated, project_config>>

\* One iteration of ProjectConfig.validate: 'for build in self:
\* build.validate()'.
ValidateBuild ==
    /\ pc = "loop"
    /\ Len(build_configs) = Len(configs)
    /\ validated < Len(build_configs)
    /\ \E r \in {BuildConfig_validate(build_configs[validated + 1],
                                      env_config)} :
           /\ build_configs' =
                 [build_configs EXCEPT ![validated + 1].config = r.config]
           /\ env_config' = r.env
           /\ raised' = r.err
           /\ trace' = Append(trace, [Event("validate", validated)
                                         EXCEPT !.err = r.err])
           /\ pc' = IF r.err # NoError THEN "raised" ELSE pc
    /\ validated' = validated + 1
    /\ UNCHANGED <<filename, configs, project_config>>

\* return project_config
Return ==
    /\ pc = "loop"
    /\ Len(build_configs) = Len(configs)
    /\ validated = Len(build_configs)
    /\ pc' = "done"
    /\ project_config' = [returned |-> TRUE, items |-> build_configs]
    /\ UNCHANGED <<env_config, filename, configs, build_configs, validated,
                   raised, trace>>

\* The properties read on a returned configuration: python_interpreter goes
\* through get_valid_python_versions and so through env_config.
ReturnedAttrNames == {"python_interpreter", "doctype"}

\* A property read on one configuration of the returned ProjectConfig; the
\* trace keeps the latest read only.
ReadReturned ==
    /\ pc = "done"
    /\ \E i \in DOMAIN project_config.items, name \in ReturnedAttrNames :
       \E r \in {getattr(project_config.items[i], env_config, name)} :
           trace' = Append(IF trace[Len(trace)].op = "getattr"
                           THEN SubSeq(trace, 1, Len(trace) - 1) ELSE trace,
                           [Event("getattr", i - 1) EXCEPT
                               !.err = r.err, !.name = name, !.val = r.val])
    /\ UNCHANGED <<pc, env_config, filename, configs, build_configs, validated,
                   project_config, raised>>

Next ==
    Locate \/ ReadParse \/ Instantiate \/ ValidateBuild \/ Return
    \/ ReadReturned

Spec == Init /\ [][Next]_vars

(***************************************************************************)
(* Properties of load.                                                     *)
(***************************************************************************)
AllowV2 == Truthy(Get(env_config.allow_v2, Sc("None")).tok)

ValidateEvents == {k \in DOMAIN trace : trace[k].op = "validate"}

LastEvent ==
    IF trace = <<>> THEN Event("none", -1) ELSE trace[Len(trace)]

\* C1: with env_config's allow_v2 unset or falsy, every document is
\* instantiated as BuildConfigV1 whatever its 'version' key holds and is
\* validated by BuildConfigV1.validate; instantiation never fails, load never
\* raises VERSION_INVALID and no BuildConfigV2 is produced.
C1_GateForcesV1 ==
    ~AllowV2 =>
        /\ \A j \in 1..Len(build_configs) : build_configs[j].cls = "V1"
        /\ \A j \in 1..Len(project_config.items) :
              project_config.items[j].cls = "V1"
        /\ raised.code # VERSION_INVALID
        /\ (pc = "raised" /\ Len(trace) > 0 => LastEvent.op # "new")
        /\ (pc = "done" => Len(build_configs) = Len(configs))
        /\ \A j \in 1..validated :
              /\ "output_base" \in build_configs[j].config.has
              /\ "submodules" \notin build_configs[j].config.has

C1_Witness ==
    /\ ~AllowV2
    /\ pc = "done"
    /\ \E j \in 1..Len(configs) :
          configs[j].version = Sc("2") /\ build_configs[j].cls = "V1"
    /\ \E j \in 1..Len(configs) :
          configs[j].version = Sc("'abc'") /\ build_configs[j].cls = "V1"

\* C2: when validate() of document i is the first to fail, load raises that
\* error unchanged (an InvalidConfig carries load's file and position i),
\* returns no ProjectConfig, and validate() has run on documents 0..i only:
\* the documents after i are never validated and load does nothing more.
C2_FirstFailureAbortsLoad ==
    pc = "raised" /\ validated > 0 =>
        /\ LastEvent.op = "validate"
        /\ LastEvent.pos = validated - 1
        /\ LastEvent.err # NoError
        /\ raised = LastEvent.err
        /\ (raised.kind = "InvalidConfig"
              => raised.pos = validated - 1 /\ raised.file = filename)
        /\ project_config = NotReturned
        /\ Cardinality(ValidateEvents) = validated
        /\ \A k \in ValidateEvents : k < Len(trace) => trace[k].err = NoError
        /\ \A j \in (validated + 1)..Len(build_configs) :
              build_configs[j].config = EmptyConfig
        /\ ~ENABLED Next

C2_Witness ==
    /\ pc = "raised"
    /\ validated = 1
    /\ Len(build_configs) = 2
    /\ raised.kind = "InvalidConfig"
    /\ build_configs[2].raw_config = EmptyDoc

\* C3 (as claimed): with the opt-in enabled, a document is instantiated as
\* BuildConfigV1 exactly when its declared version is the integer 1, the
\* string '1' or absent, as BuildConfigV2 exactly when it is the integer 2
\* or the string '2', and for every other declared value load fails with
\* ConfigError VERSION_INVALID and returns nothing.
DenotesOne == {Absent, Sc("1"), Sc("'1'")}
DenotesTwo == {Sc("2"), Sc("'2'")}

C3_VersionSelectsClass ==
    AllowV2 =>
        /\ \A j \in 1..Len(build_configs) :
              /\ build_configs[j].cls = "V1" <=> configs[j].version \in DenotesOne
              /\ build_configs[j].cls = "V2" <=> configs[j].version \in DenotesTwo
        /\ (pc = "raised" /\ Len(trace) > 0 /\ LastEvent.op = "new"
              => /\ raised = ConfigError(VERSION_INVALID)
                 /\ project_config = NotReturned)

C5_OneElementPerDocument ==
    project_config.returned =>
        /\ Len(project_config.items) = Len(configs)
        /\ \A k \in 1..Len(project_config.items) :
              /\ project_config.items[k].raw_config = configs[k]
              /\ project_config.items[k].source_position = k - 1
              /\ project_config.items[k].source_file = filename

C5_Witness ==
    /\ project_config.returned
    /\ Len(project_config.items) = 2
    /\ configs[1] # configs[2]
    /\ project_config.items[2].source_position = 1

\* C6: when the locator finds none of the accepted filenames, load raises
\* ConfigError CONFIG_REQUIRED and has done nothing but call the locator: no
\* file was read or parsed, no build config instantiated or validated.
C6_NotFoundIsConfigRequired ==
    pc # "load" /\ filename = "" =>
        /\ pc = "raised"
        /\ raised = ConfigError(CONFIG_REQUIRED)
        /\ trace = <<Event("find_one", -1)>>
        /\ configs = <<>>
        /\ build_configs = <<>>
        /\ validated = 0
        /\ project_config = NotReturned
        /\ ~ENABLED Next

C6_Witness == pc = "raised" /\ filename = "" /\ raised.code = CONFIG_REQUIRED

(***************************************************************************)
(* A single config used directly: BuildConfigV1(...) or BuildConfigV2(...) *)
(* is constructed and validate() is called on it.                          *)
(***************************************************************************)
V2PythonDocs ==
    {[EmptyDoc EXCEPT !.python =
         [Dict(NoPython) EXCEPT !.install = i, !.extra_requirements = e,
                                !.version = v]] :
        i \in {Absent, Sc("None"), Sc("'pip'"), Sc("'setup.py'"), Sc("'conda'")},
        e \in {Absent, Ls(<<>>), Ls(<<"'tests'">>), Ls(<<"'tests'", "'docs'">>),
               Ls(<<"'tests'", "1">>), Sc("'tests'")},
        v \in {Absent, Sc("4")}}

SphinxSections ==
    {NoSphinx, ScalarSection(NoSphinx, "None"), ScalarSection(NoSphinx, "'abc'"),
     Dict(NoSphinx),
     [Dict(NoSphinx) EXCEPT !.builder = Sc("'htmldir'")],
     [Dict(NoSphinx) EXCEPT !.builder = Sc("'latex'")],
     [Dict(NoSphinx) EXCEPT !.configuration = Sc("'missing.txt'")]}

MkdocsSections ==
    {NoMkdocs, ScalarSection(NoMkdocs, "None"), ScalarSection(NoMkdocs, "'abc'"),
     Dict(NoMkdocs),
     [Dict(NoMkdocs) EXCEPT !.configuration = Sc("'mkdocs.yml'")],
     [Dict(NoMkdocs) EXCEPT !.configuration = Sc("'missing.txt'")],
     [Dict(NoMkdocs) EXCEPT !.fail_on_warning = Sc("True")]}

V2DocTypeDocs ==
    {[d EXCEPT !.sphinx = sp, !.mkdocs = mk, !.formats = f] :
        d \in {EmptyDoc, ExtrasDoc}, sp \in SphinxSections,
        mk \in MkdocsSections, f \in {Absent, Ls(<<"'odt'">>)}}

SubmoduleValues ==
    {Absent, Ls(<<>>), Ls(<<"'a'">>), Ls(<<"'a'", "'b'">>), Sc(ALL),
     Sc("'a'"), Ls(<<"1">>)}

V2SubmoduleDocs ==
    {[EmptyDoc EXCEPT !.submodules =
         [Dict(NoSubmodules) EXCEPT !.include = i, !.exclude = e,
                                    !.recursive = r]] :
        i \in SubmoduleValues, e \in SubmoduleValues,
        r \in {Absent, Sc("True"), Sc("'abc'")}}
    \cup {[EmptyDoc EXCEPT !.submodules = ScalarSection(NoSubmodules, "None")]}

V2Docs == V2PythonDocs \cup V2DocTypeDocs \cup V2SubmoduleDocs

V1PythonDocs ==
    {[EmptyDoc EXCEPT !.python =
         [Dict(NoPython) EXCEPT !.pip_install = p, !.setup_py_install = i,
                                !.extra_requirements = e]] :
        p \in {Absent, Sc("True"), Sc("False"), Sc("'abc'")},
        i \in {Absent, Sc("True"), Sc("False")},
        e \in {Absent, Ls(<<>>), Ls(<<"'tests'">>), Ls(<<"'tests'", "'docs'">>),
               Ls(<<"'tests'", "1">>), Sc("'tests'")}}

V1Docs ==
    V1PythonDocs
    \cup {EmptyDoc, BadFormatsDoc, NullBuildDoc,
          [EmptyDoc EXCEPT !.formats = Ls(<<"'pdf'", "'epub'">>)]}

UnitEnvs ==
    {[BaseEnv EXCEPT !.defaults.install_project = p] :
        p \in {Absent, Sc("True"), Sc("False")}}

\* Build image and python version: documents and environments.
ImageDoc(image, version) ==
    [EmptyDoc EXCEPT !.build = [Dict(NoBuild) EXCEPT !.image = image],
                     !.python = [Dict(NoPython) EXCEPT !.version = version]]

PythonVersions ==
    {Absent, Sc("2"), Sc("3"), Sc("'3'"), Sc("3.4"), Sc("3.6")}

V1BuildDocs ==
    {ImageDoc(i, v) :
        i \in {Absent, Sc("'1.0'"), Sc("'latest'"), Sc("'3.0'"), Sc("2.0"),
               Sc("'custom'")},
        v \in PythonVersions}
    \cup {[EmptyDoc EXCEPT !.python =
              [Dict(NoPython) EXCEPT !.version = v]] : v \in PythonVersions}

V1BuildEnvs ==
    {[BaseEnv EXCEPT !.build = b, !.image_settings = o,
                     !.defaults.build_image = d,
                     !.defaults.python_version = v] :
        b \in {NoBuild, [Dict(NoBuild) EXCEPT !.image = Sc("'latest'")],
               [Dict(NoBuild) EXCEPT !.image = Sc("'custom/image:1'")]},
        o \in {{}, {"'readthedocs/build:2.0'"}},
        d \in {Absent, Sc("''"), Sc("'readthedocs/build:3.0'")},
        v \in {Absent, Sc("3"), Sc("3.6")}}

V2BuildDocs ==
    {ImageDoc(i, v) :
        i \in {Absent, Sc("'1.0'"), Sc("'2.0'"), Sc("'latest'"), Sc("'custom'")},
        v \in PythonVersions \cup {Sc("'2.7'")}}

V2BuildEnvs ==
    {[BaseEnv EXCEPT !.defaults.build_image = d] :
        d \in {Absent, Sc("''"), Sc("'custom/image:1'"),
               Sc("'readthedocs/build:1.0'")}}

\* Documents in which each field is either left out or holds a value that
\* its validation refuses.
BadName == Sc("'my project'")
BadPath == Sc("'missing.txt'")
BadFormats == Ls(<<"'odt'">>)
BadBuild == [Dict(NoBuild) EXCEPT !.image = Sc("'custom'")]
BadV1Python == [Dict(NoPython) EXCEPT !.pip_install = Sc("'abc'")]
BadV2Python == [Dict(NoPython) EXCEPT !.install = Sc("'conda'")]
BadConda == ScalarSection(NoConda, "'abc'")
BadMkdocs == [Dict(NoMkdocs) EXCEPT !.configuration = BadPath]
BadSphinx == [Dict(NoSphinx) EXCEPT !.builder = Sc("'latex'")]
BadSubmodules ==
    [Dict(NoSubmodules) EXCEPT !.include = Sc(ALL), !.exclude = Sc(ALL)]

V1OrderDocs ==
    {[EmptyDoc EXCEPT !.name = n, !.base = b, !.build = i, !.python = p,
                      !.formats = f, !.conda = c, !.requirements_file = r] :
        n \in {Absent, BadName}, b \in {Absent, BadPath},
        i \in {NoBuild, BadBuild}, p \in {NoPython, BadV1Python},
        f \in {Absent, BadFormats}, c \in {NoConda, BadConda},
        r \in {Absent, BadPath}}

V1OrderEnvs == {BaseEnv, [BaseEnv EXCEPT !.output_base = Absent]}

V2OrderDocs ==
    {[EmptyDoc EXCEPT !.formats = f, !.conda = c, !.build = i, !.python = p,
                      !.mkdocs = m, !.sphinx = x, !.submodules = u] :
        f \in {Absent, BadFormats}, c \in {NoConda, BadConda},
        i \in {NoBuild, BadBuild}, p \in {NoPython, BadV2Python},
        m \in {NoMkdocs, Dict(NoMkdocs), BadMkdocs},
        x \in {NoSphinx, Dict(NoSphinx), BadSphinx},
        u \in {NoSubmodules, BadSubmodules}}

V1Inputs ==
    (UnitEnvs \X V1Docs) \cup (V1BuildEnvs \X V1BuildDocs)
    \cup (V1OrderEnvs \X V1OrderDocs)

V2Inputs ==
    (UnitEnvs \X V2Docs) \cup (V2BuildEnvs \X V2BuildDocs)
    \cup ({BaseEnv} \X V2OrderDocs)

\* The number of times validate() is called on one instance.
MaxValidations == 2

InitUnit(cls, inputs) ==
    /\ pc = "unit"
    /\ \E i \in inputs : env_config = i[1] /\ configs = <<i[2]>>
    /\ filename = CONFIG_FILENAMES[1]
    /\ build_configs =
          <<BuildConfigBase(cls, env_config, configs[1], filename, 0)>>
    /\ validated = 0
    /\ project_config = NotReturned
    /\ raised = NoError
    /\ trace = <<>>

\* The calls recorded so far: validate() calls, followed by the attribute
\* read made since the last of them, if any; a later call replaces that read.
Calls(t) ==
    IF t # <<>> /\ t[Len(t)].op = "getattr" THEN SubSeq(t, 1, Len(t) - 1)
    ELSE t

\* build_config.validate(), for the first time or again after it succeeded.
UnitValidate ==
    /\ pc \in {"unit", "validated"}
    /\ validated < MaxValidations
    /\ \E r \in {BuildConfig_validate(build_configs[1], env_config)} :
           /\ build_configs' = [build_configs EXCEPT ![1].config = r.config]
           /\ env_config' = r.env
           /\ raised' = r.err
           /\ trace' = Append(Calls(trace),
                              [Event("validate", 0) EXCEPT !.err = r.err,
                                                          !.config = r.config])
           /\ pc' = IF r.err # NoError THEN "raised" ELSE "validated"
    /\ validated' = validated + 1
    /\ UNCHANGED <<filename, configs, project_config>>

\* getattr(build_config, name), in any state of the instance.
GetAttr ==
    /\ pc \in {"unit", "validated", "raised"}
    /\ \E name \in AttrNames :
       \E r \in {getattr(build_configs[1], env_config, name)} :
           trace' = Append(Calls(trace),
                           [Event("getattr", 0) EXCEPT
                               !.err = r.err, !.name = name, !.val = r.val,
                               !.config = build_configs[1].config])
    /\ UNCHANGED <<pc, env_config, filename, configs, build_configs, validated,
                   project_config, raised>>

NextUnit == UnitValidate \/ GetAttr

InitV1 == InitUnit("V1", V1Inputs)
InitV2 == InitUnit("V2", V2Inputs)

SpecV1 == InitV1 /\ [][NextUnit]_vars
SpecV2 == InitV2 /\ [][NextUnit]_vars

\* A config of either class.
SpecUnit == (InitV1 \/ InitV2) /\ [][NextUnit]_vars

(***************************************************************************)
(* Properties of one config.                                               *)
(***************************************************************************)
Inst == build_configs[1]

Ended == pc \in {"validated", "raised"}

RawPython ==
    IF Inst.raw_config.python.k = "absent" THEN Dict(NoPython)
    ELSE Inst.raw_config.python

\* A list whose items are all non-empty strings.
NameList(v) ==
    v.k = "list" /\ \A j \in 1..Len(v.items) :
                       IsStr(v.items[j]) /\ v.items[j] # "''"

\* The install mode in effect: the document's python.install, else
\* 'setup.py' when the environment default install_project is set, else None.
EffectiveInstall ==
    IF RawPython.install.k # "absent" THEN RawPython.install
    ELSE IF Inst.defaults.install_project \in {Sc("True")}
    THEN Sc("'setup.py'") ELSE Sc("None")

V2KeysBeforeExtras ==
    {"formats", "conda", "conda.environment", "build", "build.image", "python",
     "python.version", "python.requirements", "python.install"}

\* C7: in BuildConfigV2.validate, once the fields before it are valid, a
\* non-empty python.extra_requirements list fails with InvalidConfig
\* 'python.extra_requirements' / PYTHON_INVALID when the effective install
\* mode is 'setup.py' or none, is accepted (and stored) when it is 'pip', and
\* an empty list is never refused, whatever the install mode.
C7_ExtraRequirementsNeedPip ==
    LET extra == Get(RawPython.extra_requirements, Ls(<<>>))
    IN  Ended /\ Inst.cls = "V2" /\ raised.key \notin V2KeysBeforeExtras
        /\ extra.k = "list"
        => /\ (extra.items # <<>> /\ EffectiveInstall # Sc("'pip'")
                 => /\ raised = InvalidConfig("python.extra_requirements",
                                              PYTHON_INVALID, filename, 0)
                    /\ "python" \notin Inst.config.has)
           /\ (extra.items # <<>> /\ EffectiveInstall = Sc("'pip'")
               /\ NameList(extra)
                 => /\ raised.key # "python.extra_requirements"
                    /\ "python" \in Inst.config.has
                    /\ Inst.config.python.extra_requirements = extra.items
                    /\ Inst.config.python.install_with_pip)
           /\ (extra.items = <<>>
                 => /\ raised.key # "python.extra_requirements"
                    /\ "python" \in Inst.config.has)

C7_Witness ==
    /\ pc = "raised"
    /\ Inst.cls = "V2"
    /\ raised.key = "python.extra_requirements"
    /\ raised.code = PYTHON_INVALID
    /\ RawPython.install = Absent
    /\ Inst.defaults.install_project = Sc("True")
    /\ RawPython.extra_requirements = Ls(<<"'tests'">>)

\* C8: in BuildConfigV1 a list of extra requirements given without
\* pip_install never makes validation fail; after validate() the
\* extra_requirements property is the validated list when pip_install is true
\* and the empty list otherwise, and install_project is true exactly when
\* pip_install or setup_py_install is true.
C8_V1ExtrasIgnoredWithoutPip ==
    LET extra == RawPython.extra_requirements
        pip == Get(RawPython.pip_install, Sc("False"))
        setup == Get(RawPython.setup_py_install,
                     Get(Inst.defaults.install_project, Sc("False")))
    IN  Ended /\ Inst.cls = "V1"
        => /\ (NameList(extra) /\ pip # Sc("True")
                 => raised.key # "python.extra_requirements")
           /\ (NameList(extra) /\ pip \in {Sc("True"), Sc("False")}
               /\ setup \in {Sc("True"), Sc("False")}
                 => pc = "validated")
           /\ (pc = "validated"
                 => /\ V1_extra_requirements(Inst) =
                          IF pip = Sc("True") THEN Get(extra, Ls(<<>>)).items
                          ELSE <<>>
                    /\ Truthy(V1_install_project(Inst))
                          <=> (pip = Sc("True") \/ setup = Sc("True")))

C8_Witness ==
    /\ pc = "validated"
    /\ Inst.cls = "V1"
    /\ RawPython.extra_requirements = Ls(<<"'tests'">>)
    /\ RawPython.pip_install = Absent
    /\ Inst.config.python.extra_requirements = <<"'tests'">>
    /\ V1_extra_requirements(Inst) = <<>>

\* C9: a v2 document declaring both 'sphinx' and 'mkdocs' always fails
\* validate(), whatever either section holds (valid, invalid, empty or null),
\* with neither section validated or stored; once formats, conda, build and
\* python are valid the error is InvalidConfig '.' INVALID_KEYS_COMBINATION.
C9_BothDocTypesRejected ==
    Ended /\ Inst.cls = "V2"
    /\ Inst.raw_config.sphinx.k # "absent" /\ Inst.raw_config.mkdocs.k # "absent"
    => /\ pc = "raised"
       /\ "mkdocs" \notin Inst.config.has
       /\ "sphinx" \notin Inst.config.has
       /\ raised.key \notin {"mkdocs", "mkdocs.configuration",
                             "mkdocs.fail_on_warning", "sphinx",
                             "sphinx.builder", "sphinx.configuration",
                             "sphinx.fail_on_warning"}
       /\ ("python" \in Inst.config.has
             => raised = InvalidConfig(".", INVALID_KEYS_COMBINATION,
                                       filename, 0))

C9_Witness ==
    /\ pc = "raised"
    /\ Inst.cls = "V2"
    /\ raised.code = INVALID_KEYS_COMBINATION
    /\ Inst.raw_config.sphinx = ScalarSection(NoSphinx, "None")
    /\ Inst.raw_config.mkdocs.configuration = Sc("'missing.txt'")

\* C10: in BuildConfigV2.validate_submodules, when include and exclude are
\* both valid (the keyword 'all' or a list of names) and both non-empty,
\* validation fails with InvalidConfig 'submodules' SUBMODULES_INVALID; when
\* at least one is empty and recursive is a boolean or absent, validation
\* succeeds and stores them, recursive defaulting to false.
C10_SubmodulesExclusive ==
    LET raw == IF Inst.raw_config.submodules.k = "absent"
               THEN Dict(NoSubmodules) ELSE Inst.raw_config.submodules
        include == Get(raw.include, Ls(<<>>))
        exclude == Get(raw.exclude, Ls(<<>>))
        valid(v) == v = Sc(ALL) \/ NameList(v)
        nonempty(v) == v = Sc(ALL) \/ v.items # <<>>
    IN  Ended /\ Inst.cls = "V2" /\ "sphinx" \in Inst.config.has
        /\ raw.k = "dict" /\ valid(include) /\ valid(exclude)
        => /\ (nonempty(include) /\ nonempty(exclude)
                 => /\ raised = InvalidConfig("submodules", SUBMODULES_INVALID,
                                              filename, 0)
                    /\ "submodules" \notin Inst.config.has)
           /\ (~(nonempty(include) /\ nonempty(exclude))
               /\ raw.recursive \in {Absent, Sc("True"), Sc("False")}
                 => /\ pc = "validated"
                    /\ Inst.config.submodules =
                          [include |-> include, exclude |-> exclude,
                           recursive |-> Get(raw.recursive, Sc("False")).tok])

C10_Witness ==
    /\ pc = "raised"
    /\ Inst.cls = "V2"
    /\ raised.code = SUBMODULES_INVALID
    /\ Inst.raw_config.submodules.include = Sc(ALL)
    /\ Inst.raw_config.submodules.exclude = Ls(<<"'a'">>)

(***************************************************************************)
(* Properties of attribute reads and repeated validation.                  *)
(***************************************************************************)
\* C11 (as claimed): on a validated config of either class whose resolved
\* python version is the bare major 2 or 3, reading python_full_version
\* (python_interpreter) returns the highest version v the active image
\* supports with m <= v < m + 1 (prefixed by 'python').
C11_InterpreterHighestOfSeries ==
    LET m == Inst.config.python.version
        supported == SeqToSet(get_valid_python_versions(Inst, env_config))
        series == {v \in supported : m <= v /\ v < m + 10}
    IN  pc = "validated" /\ LastEvent.op = "getattr" /\ m \in {20, 30}
        => /\ (LastEvent.name = "python_full_version"
                 => /\ LastEvent.err = NoError
                    /\ series # {}
                    /\ LastEvent.val = VersionToken(SetMax(series)))
           /\ (LastEvent.name = "python_interpreter"
                 => /\ LastEvent.err = NoError
                    /\ series # {}
                    /\ LastEvent.val = FormatInterpreter(SetMax(series)))

C13_UnknownAttributeRaises ==
    LastEvent.op = "getattr"
    /\ \/ Inst.cls = "V1" /\ LastEvent.name \in {"sphinx", "doctype"}
       \/ Inst.cls = "V2"
          /\ LastEvent.name \in {"name", "build_image", "python_version"}
    => /\ LastEvent.err.kind = "ConfigOptionNotSupportedError"
       /\ LastEvent.err.code = "config-not-supported"
       /\ LastEvent.err.configuration = LastEvent.name
       /\ LastEvent.val = ""
       /\ LastEvent.config = Inst.config

C13_Witness ==
    /\ Inst.cls = "V2"
    /\ pc = "validated"
    /\ LastEvent.op = "getattr"
    /\ LastEvent.name = "build_image"
    /\ LastEvent.err = ConfigOptionNotSupportedError("build_image")
    /\ "build" \in Inst.config.has

(***************************************************************************)
(* Properties of validate(): its outcome, the build image and the python   *)
(* version.                                                                *)
(***************************************************************************)
\* C14 (as claimed): validate() of either class either returns or raises an
\* InvalidConfig that names the failing field and carries the failing
\* check's code and the instance's source_file and source_position.
C14_ValidateReturnsOrInvalidConfig ==
    Ended =>
        \/ pc = "validated" /\ raised = NoError
        \/ /\ pc = "raised"
           /\ raised.kind = "InvalidConfig"
           /\ raised.key # ""
           /\ raised.code # ""
           /\ raised.file = Inst.source_file
           /\ raised.pos = Inst.source_position

\* C15 (as claimed): load finishes resolving, instantiating and validating
\* document i before it does anything for document i + 1, so the error load
\* raises belongs to the lowest-positioned document that has a failure: when
\* load fails on the version of a document, no document before it has an
\* invalid field.
C15_DocumentsHandledInOrder ==
    /\ \A a, b \in DOMAIN trace :
          a < b /\ trace[a].pos >= 0 /\ trace[b].pos >= 0
          => trace[a].pos <= trace[b].pos
    /\ (pc = "raised" /\ LastEvent.op = "new"
          => \A i \in 1..LastEvent.pos :
                BuildConfig_validate(build_configs[i], env_config).err
                    = NoError)

\* The supported-version list of an image: the environment's override table
\* for it when there is one, else the built-in table.
SupportedBy(image) ==
    IF image \in env_config.image_settings THEN EnvOverrideVersions
    ELSE DOCKER_IMAGE_SETTINGS(image)

\* C16 (as claimed): after a successful validate() the resolved python
\* version is in the supported-version list of the final build image; for v2
\* an image without a table counts as 'readthedocs/build:latest'.
C16_VersionSupportedByFinalImage ==
    pc = "validated" =>
        /\ (Inst.cls = "V1" /\ Inst.config.build \in DockerImages
              => Inst.config.python.version
                    \in SeqToSet(SupportedBy(Inst.config.build)))
        /\ (Inst.cls = "V2"
              => Inst.config.python.version
                    \in SeqToSet(DOCKER_IMAGE_SETTINGS(
                          IF Inst.config.build \in DockerImages
                          THEN Inst.config.build
                          ELSE "'readthedocs/build:latest'")))

\* 'readthedocs/build:<tag>'
DefaultImageNames ==
    {"'readthedocs/build:1.0'", "'readthedocs/build:2.0'",
     "'readthedocs/build:3.0'", "'readthedocs/build:stable'",
     "'readthedocs/build:latest'", "'readthedocs/build:custom'"}

\* C17 (as claimed): in BuildConfigV1, with no project-level default image,
\* the build image validate() stores is always 'readthedocs/build:<tag>',
\* and a document's own image is accepted only when it is '1.0', '2.0' or
\* 'latest', any other failing with InvalidConfig on key 'build'.
C17_V1ImageNormalized ==
    LET raw == Inst.raw_config.build
        given == raw.k = "dict" /\ raw.image.k = "scalar"
    IN  Ended /\ Inst.cls = "V1" /\ "output_base" \in Inst.config.has
        /\ ~Truthy(Get(Inst.defaults.build_image, Sc("None")).tok)
        => /\ ("build" \in Inst.config.has
                 => Inst.config.build \in DefaultImageNames)
           /\ (given /\ StrOf(raw.image.tok) \notin {"'1.0'", "'2.0'", "'latest'"}
                 => /\ raised.kind = "InvalidConfig"
                    /\ raised.key = "build"
                    /\ "build" \notin Inst.config.has)

\* C18: whenever the environment defaults carry a non-empty build_image and
\* validate() succeeds, the stored build image is that default, whatever the
\* document or env_config['build'] selected; in v1 the python versions merged
\* into env_config are those of the image selected before the override (the
\* environment's override table for it, else its built-in table).
C18_ProjectDefaultImageWins ==
    LET default == Get(Inst.defaults.build_image, Sc("None")).tok
        raw == Inst.raw_config.build
        own == Get(env_config.build.image, Sc(DOCKER_IMAGE)).tok
        selected == IF raw.k = "dict" /\ raw.image.k = "scalar"
                    THEN FormatImage(StrOf(raw.image.tok))
                    ELSE IF raw.k = "dict" /\ ~HasColon(own)
                    THEN FormatImage(own)
                    ELSE own
    IN  pc = "validated" /\ Truthy(default)
        => /\ Inst.config.build = default
           /\ (Inst.cls = "V1" /\ selected \in DockerImages
                 => env_config.python = SupportedBy(selected))

C18_Witness ==
    /\ pc = "validated"
    /\ Inst.cls = "V1"
    /\ Inst.defaults.build_image = Sc("'readthedocs/build:3.0'")
    /\ Inst.raw_config.build.image = Sc("'1.0'")
    /\ Inst.config.build = "'readthedocs/build:3.0'"
    /\ env_config.python = DOCKER_IMAGE_SETTINGS("'readthedocs/build:1.0'")

(***************************************************************************)
(* The order of the validation steps.                                      *)
(***************************************************************************)
\* The first index of a sequence of booleans that is TRUE, Len + 1 if none.
FirstTrue(bad) ==
    IF \E j \in 1..Len(bad) : bad[j]
    THEN CHOOSE j \in 1..Len(bad) : bad[j] /\ \A k \in 1..(j - 1) : ~bad[k]
    ELSE Len(bad) + 1

V1StepKeys ==
    <<"output_base", "build", "name", "base", "python", "formats", "conda",
      "requirements_file">>

\* C19: BuildConfigV1.validate handles output base, build image, name, base
\* directory, python, formats, conda, requirements file in this order: for a
\* document in which any subset of these fields is invalid, the exception
\* raised is the InvalidConfig of the first invalid field in the order (an
\* env_config without output_base fails before everything else), and the
\* fields stored at that moment are exactly those before it in the order.
C19_V1FieldOrder ==
    LET raw == Inst.raw_config
        bad == <<env_config.output_base = Absent, raw.build = BadBuild,
                 raw.name = BadName, raw.base = BadPath,
                 raw.python = BadV1Python, raw.formats = BadFormats,
                 raw.conda = BadConda, raw.requirements_file = BadPath>>
        key == <<"", "build", "name", "base", "python.pip_install", "format",
                 "conda", "requirements_file">>
        f == FirstTrue(bad)
    IN  Ended /\ Inst.cls = "V1" /\ raw \in V1OrderDocs
        => /\ Inst.config.has = {V1StepKeys[j] : j \in 1..(f - 1)}
           /\ (f = 9 => pc = "validated")
           /\ (f = 1 => pc = "raised" /\ raised.kind = "AssertionError")
           /\ (f \in 2..8
                 => /\ pc = "raised"
                    /\ raised.kind = "InvalidConfig"
                    /\ raised.key = key[f])

C19_Witness ==
    /\ pc = "raised"
    /\ Inst.cls = "V1"
    /\ Inst.raw_config.python = BadV1Python
    /\ Inst.raw_config.formats = BadFormats
    /\ Inst.raw_config.requirements_file = BadPath
    /\ raised.key = "python.pip_install"
    /\ Inst.config.has = {"output_base", "build", "name", "base"}

V2StepKeys ==
    <<{"formats"}, {"conda"}, {"build"}, {"python"}, {}, {"mkdocs"},
      {"sphinx"}, {"submodules"}>>

\* C20: BuildConfigV2.validate runs formats, conda, build image, python, the
\* doc-type exclusivity check, mkdocs, sphinx, submodules in this order: for
\* a document in which any subset of these steps fails, the InvalidConfig
\* raised is that of the first failing step in the order, and what is stored
\* at that moment is exactly the result of the steps before it.
C20_V2StepOrder ==
    LET raw == Inst.raw_config
        bad == <<raw.formats = BadFormats, raw.conda = BadConda,
                 raw.build = BadBuild, raw.python = BadV2Python,
                 raw.mkdocs # NoMkdocs /\ raw.sphinx # NoSphinx,
                 raw.mkdocs = BadMkdocs, raw.sphinx = BadSphinx,
                 raw.submodules = BadSubmodules>>
        key == <<"formats", "conda", "build.image", "python.install", ".",
                 "mkdocs.configuration", "sphinx.builder", "submodules">>
        code == <<INVALID_CHOICE, INVALID_DICT, INVALID_CHOICE, INVALID_CHOICE,
                  INVALID_KEYS_COMBINATION, INVALID_FILE, INVALID_CHOICE,
                  SUBMODULES_INVALID>>
        f == FirstTrue(bad)
    IN  Ended /\ Inst.cls = "V2" /\ raw \in V2OrderDocs
        => /\ Inst.config.has = UNION {V2StepKeys[j] : j \in 1..(f - 1)}
           /\ (f = 9 => pc = "validated")
           /\ (f \in 1..8
                 => /\ pc = "raised"
                    /\ raised = InvalidConfig(key[f], code[f], filename, 0))

C20_Witness ==
    /\ pc = "raised"
    /\ Inst.cls = "V2"
    /\ Inst.raw_config.mkdocs = BadMkdocs
    /\ Inst.raw_config.sphinx = BadSphinx
    /\ Inst.raw_config.submodules = BadSubmodules
    /\ raised.code = INVALID_KEYS_COMBINATION
    /\ Inst.config.has = {"formats", "conda", "build", "python"}

\* The builder identifiers a Sphinx record can carry.
SphinxDoctypes == {"'sphinx'", "'sphinx_htmldir'", "'sphinx_singlehtml'"}

\* C21: after a successful BuildConfigV2.validate() exactly one of the sphinx
\* and mkdocs records is not None.  The mkdocs record is present exactly when
\* the document's mkdocs section is not null, and then sphinx is None; with
\* neither section (absent or null) the sphinx record is the synthesized
\* default, builder 'sphinx' and fail_on_warning False.  The sphinx and mkdocs
\* properties read None exactly for the missing record, and doctype reads
\* 'mkdocs' exactly when the mkdocs record is present and otherwise the
\* sphinx record's builder, one of SphinxDoctypes.
C21_ExactlyOneDocType ==
    (pc = "validated" /\ Inst.cls = "V2") =>
        LET mkdocs == Inst.config.mkdocs
            sphinx == Inst.config.sphinx
            raw == Inst.raw_config
        IN  /\ {"sphinx", "mkdocs"} \subseteq Inst.config.has
            /\ mkdocs.none # sphinx.none
            /\ ~mkdocs.none <=> ~IsNoneSection(raw.mkdocs)
            /\ ~IsNoneSection(raw.mkdocs) => sphinx = NoneRecord
            /\ IsNoneSection(raw.mkdocs) => mkdocs = NoneRecord
            /\ ~sphinx.none => sphinx.builder \in SphinxDoctypes
            /\ (IsNoneSection(raw.mkdocs) /\ IsNoneSection(raw.sphinx))
                   => /\ sphinx.builder = "'sphinx'"
                      /\ sphinx.fail_on_warning = "False"
            /\ LastEvent.op = "getattr" =>
                   /\ LastEvent.name \in {"sphinx", "mkdocs", "doctype"}
                         => LastEvent.err = NoError
                   /\ LastEvent.name = "sphinx"
                         => (LastEvent.val = "None" <=> sphinx.none)
                   /\ LastEvent.name = "mkdocs"
                         => (LastEvent.val = "None" <=> mkdocs.none)
                   /\ LastEvent.name = "doctype"
                         => /\ LastEvent.val = "'mkdocs'"
                                  <=> ~IsNoneSection(raw.mkdocs)
                            /\ IsNoneSection(raw.mkdocs)
                                  => /\ LastEvent.val = sphinx.builder
                                     /\ LastEvent.val \in SphinxDoctypes

\* A document with only a mkdocs section validated and its doctype read.
C21_Witness ==
    /\ pc = "validated"
    /\ Inst.cls = "V2"
    /\ Inst.raw_config.mkdocs = Dict(NoMkdocs)
    /\ Inst.raw_config.sphinx = NoSphinx
    /\ Inst.config.sphinx.none
    /\ ~Inst.config.mkdocs.none
    /\ LastEvent.op = "getattr"
    /\ LastEvent.name = "doctype"
    /\ LastEvent.val = "'mkdocs'"

\* C22: a step changes env_config only when it is the validate() of a
\* BuildConfigV1 whose build-image step completed, and then env_config is
\* what that step's merge of the docker settings leaves; locating, reading
\* and parsing the file, constructing the configurations, a v1 validate()
\* that fails at or before the build image, BuildConfigV2.validate() and
\* property reads leave it unchanged.  No step changes a parsed document or
\* the raw document a configuration was constructed with.
C22_OnlyV1BuildWritesEnv ==
    [][/\ pc # "open" => configs' = configs
       /\ \A i \in DOMAIN build_configs :
              /\ i \in DOMAIN build_configs'
              /\ build_configs'[i].raw_config = build_configs[i].raw_config
              /\ build_configs[i].raw_config = configs[i]
       /\ env_config' # env_config =>
              /\ validated' = validated + 1
              /\ build_configs[validated'].cls = "V1"
              /\ "build" \in build_configs'[validated'].config.has
              /\ env_config' =
                    V1_validate_build(build_configs[validated'],
                                      env_config).env
       /\ (validated' = validated + 1
           /\ "build" \notin build_configs'[validated'].config.has)
              => env_config' = env_config
       /\ (validated' = validated + 1
           /\ build_configs[validated'].cls = "V2")
              => env_config' = env_config]_vars

\* A load that returned a v1 and a v2 configuration, the v1 build-image step
\* having written the python versions of its image into env_config, followed
\* by a property read.
C22_Witness ==
    /\ pc = "done"
    /\ Len(build_configs) = 2
    /\ build_configs[1].cls = "V1"
    /\ build_configs[2].cls = "V2"
    /\ env_config.python = DOCKER_IMAGE_SETTINGS(DOCKER_IMAGE)
    /\ trace[Len(trace)].op = "getattr"
    /\ trace[Len(trace)].name = "python_interpreter"

\* env_config as the caller passed it to load: no 'python' key yet.
CallerEnv == [env_config EXCEPT !.python = <<>>]

\* validate() of document i alone, on a fresh configuration and the caller's
\* env_config.
ValidatedAlone(i) ==
    BuildConfig_validate([build_configs[i] EXCEPT !.config = EmptyConfig],
                         CallerEnv)

\* C23: within one load, each validated document ends as it would alone
\* against the caller's env_config: the same error or success and the same
\* stored fields, whatever build image an earlier document chose.
C23_DocumentsValidatedIndependently ==
    \A k \in ValidateEvents :
        /\ trace[k].err = ValidatedAlone(trace[k].pos + 1).err
        /\ build_configs[trace[k].pos + 1].config
              = ValidatedAlone(trace[k].pos + 1).config

====
